---------------------------- MODULE Spec2Model ----------------------------
(***************************************************************************)
(* A model of the non-empty-slice crate: NonEmptyVec<T> (src/src/vec.rs),  *)
(* NonEmptySlice<T> (src/src/slice.rs), the boxed conversions              *)
(* (src/src/boxed.rs), the chunk/window iterators (src/src/iter.rs), the   *)
(* io::Write adapters (src/src/io.rs), CowSlice<T> (src/src/cow.rs) and    *)
(* the serde implementations (src/src/serde.rs).                           *)
(*                                                                         *)
(* A slice or the contents of a Vec is a TLA+ sequence; the element at     *)
(* Rust index i is s[i + 1].  A Vec<T> handed to a constructor is a record *)
(* [items, cap]; a Box<[T]> is its sequence of items.                      *)
(***************************************************************************)
EXTENDS Integers, Sequences, FiniteSets, TLC

\* ------------------------------------------------------------------------
\* Bounds of the model.

\* Number of distinct element values.
NumElems == 2

\* Longest vector of the NonEmptyVec state machine, and longest byte buffer.
MaxLen == 4

\* Longest Vec or slice given to a constructor, an accessor or an iterator.
MaxSlice == 5

\* Largest spare capacity (capacity - length) of a Vec given to a constructor.
MaxSpare == 2

\* Longest byte string handed to one write call.
MaxWrite == 2

\* Longest CowSlice that is read, written and compared.
MaxCow == 2

Elem == 1 .. NumElems

Seqs(n) == UNION {[1 .. k -> Elem] : k \in 0 .. n}

NonEmptySeqs(n) == UNION {[1 .. k -> Elem] : k \in 1 .. n}

\* The non-zero sizes (non_zero_size::Size) given to the mutators, one past
\* the longest vector included.
Sizes == 1 .. (MaxLen + 1)

\* The non-zero chunk and window sizes, one past the longest slice included.
ChunkSizes == 1 .. (MaxSlice + 1)

\* The usize indices considered, one past the longest vector included.
Indices == 0 .. MaxLen

Min(a, b) == IF a <= b THEN a ELSE b

\* ------------------------------------------------------------------------
\* Values returned by the operations.

None == [tag |-> "None"]

Some(x) == [tag |-> "Some", val |-> x]

Ok(x) == [tag |-> "Ok", val |-> x]

Err(e) == [tag |-> "Err", err |-> e]

Unit == [tag |-> "Unit"]

Panic == [tag |-> "Panic"]

\* ------------------------------------------------------------------------
\* Vec<T> and Box<[T]> values handed to and returned by the constructors.

Vecs(n) == {[items |-> s, cap |-> Len(s) + d] : s \in Seqs(n), d \in 0 .. MaxSpare}

\* Vec::is_empty as called in NonEmptyVec::new
Vec_is_empty(vector) == Len(vector.items) = 0

Vec_into_boxed_slice_unshrunk(vector) ==
    vector.items \o [i \in 1 .. (vector.cap - Len(vector.items)) |-> CHOOSE e \in Elem : TRUE]

\* Vec::into_boxed_slice: drops the spare capacity
Vec_into_boxed_slice(vector) == vector.items

Box_into_vec_with_spare(boxed) == [items |-> boxed, cap |-> Len(boxed) + 1]

\* <[T]>::into_vec on a Box<[T]>: the capacity is the length
Box_into_vec(boxed) == [items |-> boxed, cap |-> Len(boxed)]

\* ------------------------------------------------------------------------
\* Checked and unchecked construction (vec.rs, boxed.rs, slice.rs).

EmptyVec_new_fresh(vec) == [vec |-> [items |-> <<>>, cap |-> 0]]

\* EmptyVec::new: the error holding the vector provided
EmptyVec_new(vec) == [vec |-> vec]

\* EmptyVec::get
EmptyVec_get(empty) == empty.vec

\* EmptyBoxedSlice::new
EmptyBoxedSlice_new(boxed) == [boxed |-> boxed]

\* EmptyBoxedSlice::get
EmptyBoxedSlice_get(empty) == empty.boxed

\* EmptyVec::from_empty_boxed_slice
EmptyVec_from_empty_boxed_slice(empty) ==
    EmptyVec_new(Box_into_vec(EmptyBoxedSlice_get(empty)))

EmptyBoxedSlice_from_empty_vec_unshrunk(empty) ==
    EmptyBoxedSlice_new(Vec_into_boxed_slice_unshrunk(EmptyVec_get(empty)))

\* EmptyBoxedSlice::from_empty_vec
EmptyBoxedSlice_from_empty_vec(empty) ==
    EmptyBoxedSlice_new(Vec_into_boxed_slice(EmptyVec_get(empty)))

\* EmptyVec::into_empty_boxed_slice
EmptyVec_into_empty_boxed_slice(empty) == EmptyBoxedSlice_from_empty_vec(empty)

\* EmptyBoxedSlice::into_empty_vec
EmptyBoxedSlice_into_empty_vec(empty) == EmptyVec_from_empty_boxed_slice(empty)

\* The unit error EmptySlice
EmptySlice == [error |-> "the slice is empty"]

\* NonEmptyVec::new_unchecked
NonEmptyVec_new_unchecked(inner) == [inner |-> inner]

NonEmptyVec_new_inverted(vector) ==
    IF ~Vec_is_empty(vector)
    THEN Err(EmptyVec_new(vector))
    ELSE Ok(NonEmptyVec_new_unchecked(vector))

\* NonEmptyVec::new
NonEmptyVec_new(vector) ==
    IF Vec_is_empty(vector)
    THEN Err(EmptyVec_new(vector))
    ELSE Ok(NonEmptyVec_new_unchecked(vector))

\* NonEmptyVec::into_vec (into_vec_no_assert): the inner vector, as it is
NonEmptyVec_into_vec(non_empty) == non_empty.inner

\* NonEmptySlice::from_boxed_slice_unchecked: the same allocation, retyped
NonEmptySlice_from_boxed_slice_unchecked(boxed) == [inner |-> boxed]

\* NonEmptySlice::from_boxed_slice
NonEmptySlice_from_boxed_slice(boxed) ==
    IF Len(boxed) = 0
    THEN Err(EmptyBoxedSlice_new(boxed))
    ELSE Ok(NonEmptySlice_from_boxed_slice_unchecked(boxed))

\* NonEmptySlice::into_boxed_slice
NonEmptySlice_into_boxed_slice(non_empty) == non_empty.inner

\* NonEmptySlice::from_non_empty_vec
NonEmptySlice_from_non_empty_vec(non_empty) ==
    NonEmptySlice_from_boxed_slice_unchecked(
        Vec_into_boxed_slice(NonEmptyVec_into_vec(non_empty)))

\* NonEmptyVec::from_non_empty_boxed_slice
NonEmptyVec_from_non_empty_boxed_slice(non_empty) ==
    NonEmptyVec_new_unchecked(Box_into_vec(NonEmptySlice_into_boxed_slice(non_empty)))

\* NonEmptySlice::into_non_empty_vec
NonEmptySlice_into_non_empty_vec(non_empty) ==
    NonEmptyVec_from_non_empty_boxed_slice(non_empty)

\* NonEmptyVec::into_non_empty_boxed_slice
NonEmptyVec_into_non_empty_boxed_slice(non_empty) ==
    NonEmptySlice_from_non_empty_vec(non_empty)

\* NonEmptyVec::capacity
NonEmptyVec_capacity(non_empty) == non_empty.inner.cap

\* NonEmptySlice::from_slice_unchecked: the same slice, retyped
NonEmptySlice_from_slice_unchecked(slice) == [inner |-> slice]

NonEmptySlice_try_from_slice_short(slice) ==
    IF Len(slice) <= 1
    THEN Err(EmptySlice)
    ELSE Ok(NonEmptySlice_from_slice_unchecked(slice))

\* NonEmptySlice::try_from_slice
NonEmptySlice_try_from_slice(slice) ==
    IF Len(slice) = 0
    THEN Err(EmptySlice)
    ELSE Ok(NonEmptySlice_from_slice_unchecked(slice))

\* NonEmptySlice::from_slice
NonEmptySlice_from_slice(slice) ==
    IF Len(slice) = 0
    THEN None
    ELSE Some(NonEmptySlice_from_slice_unchecked(slice))

\* NonEmptySlice::as_slice (as_slice_no_assert)
NonEmptySlice_as_slice(non_empty) == non_empty.inner

\* NonEmptySlice::len: the length of the contained slice, as Size
NonEmptySlice_len(non_empty) == Len(NonEmptySlice_as_slice(non_empty))

\* NonEmptyVec::single: vec![value]
NonEmptyVec_single(value) ==
    NonEmptyVec_new_unchecked([items |-> <<value>>, cap |-> 1])

\* NonEmptyVec::repeat: vec![value; count]
NonEmptyVec_repeat(value, count) ==
    NonEmptyVec_new_unchecked([items |-> [i \in 1 .. count |-> value], cap |-> count])

\* NonEmptyVec::with_capacity_and_value: Vec::with_capacity, then one push
NonEmptyVec_with_capacity_and_value(capacity, value) ==
    NonEmptyVec_new_unchecked([items |-> <<value>>, cap |-> capacity])

\* NonEmptyVec::as_slice: the items of the inner vector
NonEmptyVec_as_slice(non_empty) == non_empty.inner.items

\* ------------------------------------------------------------------------
\* The Vec<T> operations NonEmptyVec delegates to, on the items of the inner
\* vector.  Each returns the items afterwards and the value returned; a panic
\* is raised before the vector is touched and leaves the items as they were.

Outcome(items, ret) == [vec |-> items, ret |-> ret]

\* A value returned as it is (not wrapped in an Option)
Returned(x) == [tag |-> "Value", val |-> x]

\* Vec::push
Vec_push(v, value) == Outcome(Append(v, value), Unit)

\* Vec::insert: panics if index > len
Vec_insert(v, index, value) ==
    IF index > Len(v)
    THEN Outcome(v, Panic)
    ELSE Outcome(SubSeq(v, 1, index) \o <<value>> \o SubSeq(v, index + 1, Len(v)), Unit)

\* Vec::extend, Vec::extend_from_slice
Vec_extend(v, iterable) == Outcome(v \o iterable, Unit)

\* Vec::append: moves the items of other, which is left empty
Vec_append(v, other) == [vec |-> v \o other, ret |-> Unit, other |-> <<>>]

\* Vec::pop
Vec_pop(v) ==
    IF Len(v) = 0
    THEN Outcome(v, None)
    ELSE Outcome(SubSeq(v, 1, Len(v) - 1), Some(v[Len(v)]))

\* A predicate FnOnce(&mut T) -> bool: it answers from the value it is given
\* and may overwrite that value (write = 0: it does not write).
Predicates == [accept : SUBSET Elem, write : 0 .. NumElems]

PredicateResult(predicate, x) == x \in predicate.accept

PredicateEffect(predicate, x) == IF predicate.write = 0 THEN x ELSE predicate.write

\* Vec::pop_if: the predicate runs on the last item in place, then pop
Vec_pop_if(v, predicate) ==
    IF Len(v) = 0
    THEN Outcome(v, None)
    ELSE LET last == v[Len(v)]
             seen == [v EXCEPT ![Len(v)] = PredicateEffect(predicate, last)]
         IN  IF PredicateResult(predicate, last)
             THEN Vec_pop(seen)
             ELSE Outcome(seen, None)

\* Vec::remove: panics if index >= len
Vec_remove(v, index) ==
    IF index >= Len(v)
    THEN Outcome(v, Panic)
    ELSE Outcome(SubSeq(v, 1, index) \o SubSeq(v, index + 2, Len(v)), Returned(v[index + 1]))

Vec_swap_remove_shifting(v, index) ==
    IF index >= Len(v)
    THEN Outcome(v, Panic)
    ELSE Outcome(SubSeq(v, 1, index) \o SubSeq(v, index + 2, Len(v)), Returned(v[index + 1]))

\* Vec::swap_remove: panics if index >= len; the last item is copied over
\* the removed one and the length drops by one
Vec_swap_remove(v, index) ==
    IF index >= Len(v)
    THEN Outcome(v, Panic)
    ELSE Outcome(SubSeq([v EXCEPT ![index + 1] = v[Len(v)]], 1, Len(v) - 1), Returned(v[index + 1]))

Vec_truncate_off_by_one(v, len) ==
    IF len > Len(v) THEN Outcome(v, Unit) ELSE Outcome(SubSeq(v, 1, len - 1), Unit)

\* Vec::truncate: no effect if len >= current length
Vec_truncate(v, len) ==
    IF len >= Len(v) THEN Outcome(v, Unit) ELSE Outcome(SubSeq(v, 1, len), Unit)

Vec_split_off_keeping_tail(v, at) ==
    IF at > Len(v)
    THEN Outcome(v, Panic)
    ELSE Outcome(SubSeq(v, at + 1, Len(v)), Returned(SubSeq(v, 1, at)))

\* Vec::split_off: panics if at > len
Vec_split_off(v, at) ==
    IF at > Len(v)
    THEN Outcome(v, Panic)
    ELSE Outcome(SubSeq(v, 1, at), Returned(SubSeq(v, at + 1, Len(v))))

Vec_resize_growing_only(v, new, value) ==
    IF new > Len(v)
    THEN Outcome(v \o [i \in 1 .. (new - Len(v)) |-> value], Unit)
    ELSE Outcome(v, Unit)

\* Vec::resize
Vec_resize(v, new, value) ==
    IF new > Len(v)
    THEN Outcome(v \o [i \in 1 .. (new - Len(v)) |-> value], Unit)
    ELSE Vec_truncate(v, new)

\* Vec::dedup: an item is dropped when it equals the last item kept
RECURSIVE DedupFrom(_, _, _)
DedupFrom(v, read, kept) ==
    IF read > Len(v)
    THEN kept
    ELSE IF Len(kept) > 0 /\ v[read] = kept[Len(kept)]
         THEN DedupFrom(v, read + 1, kept)
         ELSE DedupFrom(v, read + 1, Append(kept, v[read]))

Vec_dedup_everywhere(v) ==
    LET firsts == {j \in 1 .. Len(v) : \A i \in 1 .. (j - 1) : v[i] # v[j]}
        nth(k) == CHOOSE j \in firsts : Cardinality({h \in firsts : h <= j}) = k
    IN  Outcome([k \in 1 .. Cardinality(firsts) |-> v[nth(k)]], Unit)

Vec_dedup(v) == Outcome(DedupFrom(v, 1, <<>>), Unit)

\* ------------------------------------------------------------------------
\* The mutating operations of NonEmptyVec (vec.rs), on the items of the
\* inner vector.

\* NonEmptyVec::len
NonEmptyVec_len(v) == Len(v)

NonEmptyVec_next_empty_when_empty(v) == NonEmptyVec_len(v) = 0

\* NonEmptyVec::next_empty: len() == Size::MIN
NonEmptyVec_next_empty(v) == NonEmptyVec_len(v) = 1

\* NonEmptyVec::next_non_empty
NonEmptyVec_next_non_empty(v) == ~NonEmptyVec_next_empty(v)

\* bool::then over a call that returns the item removed: Some(item), unless
\* the call panicked
WrapSome(outcome) ==
    IF outcome.ret.tag = "Panic"
    THEN outcome
    ELSE Outcome(outcome.vec, Some(outcome.ret.val))

\* NonEmptyVec::push
NonEmptyVec_push(v, value) == Vec_push(v, value)

\* NonEmptyVec::insert
NonEmptyVec_insert(v, index, value) == Vec_insert(v, index, value)

\* Extend for NonEmptyVec, NonEmptyVec::extend_from
NonEmptyVec_extend(v, iterable) == Vec_extend(v, iterable)

\* NonEmptyVec::append
NonEmptyVec_append(v, other) == Vec_append(v, other)

NonEmptyVec_pop_unguarded(v) == Vec_pop(v)

\* NonEmptyVec::pop
NonEmptyVec_pop(v) ==
    IF NonEmptyVec_next_non_empty(v) THEN Vec_pop(v) ELSE Outcome(v, None)

NonEmptyVec_pop_if_unguarded(v, predicate) == Vec_pop_if(v, predicate)

NonEmptyVec_pop_if_predicate_first(v, predicate) ==
    LET outcome == Vec_pop_if(v, predicate)
    IN  IF NonEmptyVec_next_non_empty(v)
        THEN outcome
        ELSE Outcome([v EXCEPT ![Len(v)] = PredicateEffect(predicate, v[Len(v)])], None)

\* NonEmptyVec::pop_if
NonEmptyVec_pop_if(v, predicate) ==
    IF NonEmptyVec_next_non_empty(v) THEN Vec_pop_if(v, predicate) ELSE Outcome(v, None)

NonEmptyVec_remove_inverted(v, index) ==
    IF NonEmptyVec_next_empty(v)
    THEN WrapSome(Vec_remove(v, index))
    ELSE Outcome(v, None)

\* NonEmptyVec::remove
NonEmptyVec_remove(v, index) ==
    IF NonEmptyVec_next_non_empty(v)
    THEN WrapSome(Vec_remove(v, index))
    ELSE Outcome(v, None)

NonEmptyVec_swap_remove_guarded_late(v, index) ==
    LET outcome == Vec_swap_remove(v, index)
    IN  IF outcome.ret.tag = "Panic"
        THEN outcome
        ELSE IF NonEmptyVec_next_non_empty(v) THEN WrapSome(outcome) ELSE Outcome(v, None)

\* NonEmptyVec::swap_remove
NonEmptyVec_swap_remove(v, index) ==
    IF NonEmptyVec_next_non_empty(v)
    THEN WrapSome(Vec_swap_remove(v, index))
    ELSE Outcome(v, None)

\* NonEmptyVec::truncate
NonEmptyVec_truncate(v, len) == Vec_truncate(v, len)

\* NonEmptyVec::split_off
NonEmptyVec_split_off(v, at) == Vec_split_off(v, at)

\* NonEmptyVec::resize
NonEmptyVec_resize(v, new, value) == Vec_resize(v, new, value)

\* NonEmptyVec::dedup
NonEmptyVec_dedup(v) == Vec_dedup(v)

\* ------------------------------------------------------------------------
\* Element access on NonEmptySlice (slice.rs) and the [T] methods it calls.

\* Option::unwrap_unchecked: undefined behaviour on None, where the build
\* may produce any value of the type (garbage)
unwrap_unchecked(option, garbage) ==
    IF option.tag = "Some" THEN {option.val} ELSE garbage

\* The (item, rest) pairs split_first and split_last may return
ItemAndRest == [item : Elem, rest : Seqs(MaxSlice)]

\* <[T]>::first
Slice_first(s) == IF Len(s) = 0 THEN None ELSE Some(s[1])

\* <[T]>::last
Slice_last(s) == IF Len(s) = 0 THEN None ELSE Some(s[Len(s)])

\* <[T]>::split_first
Slice_split_first(s) ==
    IF Len(s) = 0 THEN None ELSE Some([item |-> s[1], rest |-> SubSeq(s, 2, Len(s))])

\* <[T]>::split_last
Slice_split_last(s) ==
    IF Len(s) = 0 THEN None ELSE Some([item |-> s[Len(s)], rest |-> SubSeq(s, 1, Len(s) - 1)])

\* NonEmptySlice::first: the values it may return
NonEmptySlice_first(non_empty) ==
    unwrap_unchecked(Slice_first(NonEmptySlice_as_slice(non_empty)), Elem)

NonEmptySlice_last_as_first(non_empty) ==
    unwrap_unchecked(Slice_first(NonEmptySlice_as_slice(non_empty)), Elem)

\* NonEmptySlice::last
NonEmptySlice_last(non_empty) ==
    unwrap_unchecked(Slice_last(NonEmptySlice_as_slice(non_empty)), Elem)

\* PeekMut::pop, on the vector the handle borrows
PeekMut_pop(v) == NonEmptyVec_pop(v)

\* Deref for PeekMut: last() of the vector, through its non-empty slice
PeekMut_deref(v) == NonEmptySlice_last(NonEmptySlice_from_slice_unchecked(v))

PeekMut_deref_mut_first(v, value) == Outcome([v EXCEPT ![1] = value], Unit)

\* DerefMut for PeekMut, then a write of value through the reference:
\* last_mut() of the vector, which has an item
PeekMut_deref_mut(v, value) == Outcome([v EXCEPT ![Len(v)] = value], Unit)

\* NonEmptySlice::split_first
NonEmptySlice_split_first(non_empty) ==
    unwrap_unchecked(Slice_split_first(NonEmptySlice_as_slice(non_empty)), ItemAndRest)

\* NonEmptySlice::split_last
NonEmptySlice_split_last(non_empty) ==
    unwrap_unchecked(Slice_split_last(NonEmptySlice_as_slice(non_empty)), ItemAndRest)

\* NonEmptySlice::split_at: [T]::split_at panics when index is past the end
NonEmptySlice_split_at(non_empty, index) ==
    LET slice == NonEmptySlice_as_slice(non_empty)
    IN  IF index > Len(slice)
        THEN Panic
        ELSE [left |-> NonEmptySlice_from_slice_unchecked(SubSeq(slice, 1, index)),
              right |-> SubSeq(slice, index + 1, Len(slice))]

NonEmptySlice_split_at_checked_strict(non_empty, index) ==
    LET slice == NonEmptySlice_as_slice(non_empty)
    IN  IF index >= Len(slice)
        THEN None
        ELSE Some([left |-> NonEmptySlice_from_slice_unchecked(SubSeq(slice, 1, index)),
                   right |-> SubSeq(slice, index + 1, Len(slice))])

\* NonEmptySlice::split_at_checked: [T]::split_at_checked gives None when
\* index is past the end
NonEmptySlice_split_at_checked(non_empty, index) ==
    LET slice == NonEmptySlice_as_slice(non_empty)
    IN  IF index > Len(slice)
        THEN None
        ELSE Some([left |-> NonEmptySlice_from_slice_unchecked(SubSeq(slice, 1, index)),
                   right |-> SubSeq(slice, index + 1, Len(slice))])

\* ------------------------------------------------------------------------
\* The chunk and window iterators (iter.rs) and the [T] iterators they map.
\* Each operator below gives the items the iterator yields, in order.

\* core::slice::Chunks: v is what is left of the slice
RECURSIVE Slice_chunks(_, _)
Slice_chunks(v, size) ==
    IF Len(v) = 0
    THEN <<>>
    ELSE LET chunksz == Min(Len(v), size)
         IN  <<SubSeq(v, 1, chunksz)>> \o Slice_chunks(SubSeq(v, chunksz + 1, Len(v)), size)

\* core::slice::ChunksExact::next: v is what is left of the slice
RECURSIVE ChunksExactNext(_, _)
ChunksExactNext(v, size) ==
    IF Len(v) < size
    THEN <<>>
    ELSE <<SubSeq(v, 1, size)>> \o ChunksExactNext(SubSeq(v, size + 1, Len(v)), size)

Slice_chunks_exact_from_back(s, size) ==
    LET rem == Len(s) % size
    IN  ChunksExactNext(SubSeq(s, rem + 1, Len(s)), size)

\* <[T]>::chunks_exact: the remainder is split off first
Slice_chunks_exact(s, size) ==
    LET rem == Len(s) % size
    IN  ChunksExactNext(SubSeq(s, 1, Len(s) - rem), size)

\* core::slice::RChunksExact::next: chunks are taken off the end of v
RECURSIVE RChunksExactNext(_, _)
RChunksExactNext(v, size) ==
    IF Len(v) < size
    THEN <<>>
    ELSE <<SubSeq(v, Len(v) - size + 1, Len(v))>>
             \o RChunksExactNext(SubSeq(v, 1, Len(v) - size), size)

\* <[T]>::rchunks_exact: the remainder is the front of the slice
Slice_rchunks_exact(s, size) ==
    LET rem == Len(s) % size
    IN  RChunksExactNext(SubSeq(s, rem + 1, Len(s)), size)

\* core::slice::Windows: v loses its first item at each step
RECURSIVE Slice_windows(_, _)
Slice_windows(v, size) ==
    IF size > Len(v)
    THEN <<>>
    ELSE <<SubSeq(v, 1, size)>> \o Slice_windows(SubSeq(v, 2, Len(v)), size)

\* core::slice::RChunks: v is what is left of the slice, chunks are taken
\* off its end
RECURSIVE Slice_rchunks(_, _)
Slice_rchunks(v, size) ==
    IF Len(v) = 0
    THEN <<>>
    ELSE LET chunksz == Min(Len(v), size)
         IN  <<SubSeq(v, Len(v) - chunksz + 1, Len(v))>>
                 \o Slice_rchunks(SubSeq(v, 1, Len(v) - chunksz), size)

\* The differences right - left of two items
Differences == (1 - NumElems) .. (NumElems - 1)

\* The predicates P: FnMut(&T, &T) -> bool given to chunk_by: a predicate
\* is the set of differences right - left it accepts ({0} is equality,
\* 0 .. NumElems - 1 is left <= right, {1} is "right follows left")
PairPredicates == SUBSET Differences

\* What a predicate returns for two adjacent items
PairPredicateResult(predicate, left, right) == (right - left) \in predicate

\* core::slice::ChunkBy::next, the scan: len items are in the run so far
RECURSIVE ChunkByLen(_, _, _)
ChunkByLen(v, predicate, len) ==
    IF len < Len(v) /\ PairPredicateResult(predicate, v[len], v[len + 1])
    THEN ChunkByLen(v, predicate, len + 1)
    ELSE len

\* core::slice::ChunkBy: v is what is left of the slice
RECURSIVE Slice_chunk_by(_, _)
Slice_chunk_by(v, predicate) ==
    IF Len(v) = 0
    THEN <<>>
    ELSE LET len == ChunkByLen(v, predicate, 1)
         IN  <<SubSeq(v, 1, len)>> \o Slice_chunk_by(SubSeq(v, len + 1, Len(v)), predicate)

\* Iterator::map with NonEmptySlice::from_slice_unchecked
MapNonEmpty(chunks) ==
    [i \in 1 .. Len(chunks) |-> NonEmptySlice_from_slice_unchecked(chunks[i])]

Chunks_into_iter_exact(non_empty, size) ==
    MapNonEmpty(Slice_chunks_exact(NonEmptySlice_as_slice(non_empty), size))

\* IntoIterator for Chunks
Chunks_into_iter(non_empty, size) ==
    MapNonEmpty(Slice_chunks(NonEmptySlice_as_slice(non_empty), size))

RChunks_into_iter_forward(non_empty, size) ==
    MapNonEmpty(Slice_chunks(NonEmptySlice_as_slice(non_empty), size))

\* IntoIterator for RChunks
RChunks_into_iter(non_empty, size) ==
    MapNonEmpty(Slice_rchunks(NonEmptySlice_as_slice(non_empty), size))

ChunkBy_into_iter_negated(non_empty, predicate) ==
    MapNonEmpty(Slice_chunk_by(NonEmptySlice_as_slice(non_empty),
                               Differences \ predicate))

\* IntoIterator for ChunkBy
ChunkBy_into_iter(non_empty, predicate) ==
    MapNonEmpty(Slice_chunk_by(NonEmptySlice_as_slice(non_empty), predicate))

\* IntoIterator for ChunksExact
ChunksExact_into_iter(non_empty, size) ==
    MapNonEmpty(Slice_chunks_exact(NonEmptySlice_as_slice(non_empty), size))

\* IntoIterator for RChunksExact
RChunksExact_into_iter(non_empty, size) ==
    MapNonEmpty(Slice_rchunks_exact(NonEmptySlice_as_slice(non_empty), size))

\* IntoIterator for Windows
Windows_into_iter(non_empty, size) ==
    MapNonEmpty(Slice_windows(NonEmptySlice_as_slice(non_empty), size))

\* ------------------------------------------------------------------------
\* CowSlice<'a, T> (cow.rs): a Cow<'a, [T]> that is never empty.

\* The unit error Empty, with the message it displays
Empty == [empty |-> "the slice is empty"]

\* Cow::Borrowed(&[T])
Cow_Borrowed(slice) == [tag |-> "Borrowed", slice |-> slice]

\* Cow::Owned(Vec<T>)
Cow_Owned(vector) == [tag |-> "Owned", vec |-> vector]

\* Cow::as_ref (Deref for Cow): the slice of whichever branch is active
Cow_as_ref(value) == IF value.tag = "Borrowed" THEN value.slice ELSE value.vec.items

\* CowSlice::new_unchecked
CowSlice_new_unchecked(value) == [value |-> value]

\* CowSlice::new
CowSlice_new(value) ==
    IF Len(Cow_as_ref(value)) = 0
    THEN Err(Empty)
    ELSE Ok(CowSlice_new_unchecked(value))

\* const_ok!: Ok(value) becomes Some(value), Err(_) becomes None
const_ok(result) == IF result.tag = "Ok" THEN Some(result.val) ELSE None

\* CowSlice::new_ok
CowSlice_new_ok(value) == const_ok(CowSlice_new(value))

\* CowSlice::borrowed (with borrowed_unchecked)
CowSlice_borrowed(value) ==
    IF Len(value) = 0
    THEN Err(Empty)
    ELSE Ok(CowSlice_new_unchecked(Cow_Borrowed(value)))

CowSlice_borrowed_ok_unchecked(value) == Some(CowSlice_new_unchecked(Cow_Borrowed(value)))

\* CowSlice::borrowed_ok (with borrowed_unchecked)
CowSlice_borrowed_ok(value) ==
    IF Len(value) = 0
    THEN None
    ELSE Some(CowSlice_new_unchecked(Cow_Borrowed(value)))

\* CowSlice::owned (with owned_unchecked)
CowSlice_owned(value) ==
    IF Vec_is_empty(value)
    THEN Err(Empty)
    ELSE Ok(CowSlice_new_unchecked(Cow_Owned(value)))

\* CowSlice::owned_ok
CowSlice_owned_ok(value) == const_ok(CowSlice_owned(value))

\* CowSlice::from_slice: the slice of a non-empty Slice, borrowed unchecked
CowSlice_from_slice(slice) ==
    CowSlice_new_unchecked(Cow_Borrowed(NonEmptySlice_as_slice(slice)))

\* OwnedSlice::new: the error holds the empty vector
OwnedSlice_new(slice) ==
    IF Vec_is_empty(slice)
    THEN Err([slice |-> slice])
    ELSE Ok([inner |-> slice])

\* CowSlice::from_owned_slice: the vector of an OwnedSlice, owned unchecked
CowSlice_from_owned_slice(slice) == CowSlice_new_unchecked(Cow_Owned(slice.inner))

CowSlice_get_cloning(self) == [view |-> Cow_as_ref(self.value), cloned |-> 1]

\* CowSlice::get: the view handed out, and the number of clones it made
CowSlice_get(self) == [view |-> Cow_as_ref(self.value), cloned |-> 0]

\* Mutable access to a CowSlice: a borrowed value is cloned into an owned
\* vector and the branch switched to owned; an owned value is handed out
CowSlice_to_mut(self) ==
    IF self.value.tag = "Borrowed"
    THEN [self |-> CowSlice_new_unchecked(
                       Cow_Owned([items |-> self.value.slice,
                                  cap |-> Len(self.value.slice)])),
          cloned |-> 1]
    ELSE [self |-> self, cloned |-> 0]

CowSlice_derived_by_branch(self, other) ==
    [eq |-> self.value = other.value,
     cmp |-> IF self.value = other.value THEN "Equal"
             ELSE IF self.value.tag = "Borrowed" THEN "Less" ELSE "Greater",
     hash |-> <<self.value.tag, other.value.tag>>]

\* derive(PartialEq, Eq, PartialOrd, Ord, Hash) on CowSlice: its one field is
\* a Cow, which compares and hashes the slices the two sides dereference to.
\* cmp is the lexicographic order of slices; hash is what each side feeds to
\* the hasher: the length, then the items
CowSlice_derived(self, other) ==
    LET a == Cow_as_ref(self.value)
        b == Cow_as_ref(other.value)
        RECURSIVE cmp(_)
        cmp(i) == IF i > Len(a) /\ i > Len(b) THEN "Equal"
                  ELSE IF i > Len(a) THEN "Less"
                  ELSE IF i > Len(b) THEN "Greater"
                  ELSE IF a[i] < b[i] THEN "Less"
                  ELSE IF a[i] > b[i] THEN "Greater"
                  ELSE cmp(i + 1)
    IN  [eq |-> a = b,
         cmp |-> cmp(1),
         hash |-> <<(<<Len(a)>> \o a), (<<Len(b)>> \o b)>>]

\* ------------------------------------------------------------------------
\* Serialize and Deserialize (serde.rs, cow.rs).  Serialized data is what a
\* sequence gives to a serializer: its length, then its items.

\* Serialize for Vec<T>: serialize_seq(Some(len)), then every item
Vec_serialize(vector) == <<Len(vector.items)>> \o vector.items

\* Deserialize for Vec<T>: a new vector of the items read, with the capacity
\* the length announces
Vec_deserialize(data) == [items |-> SubSeq(data, 2, data[1] + 1), cap |-> data[1]]

\* The message an EmptyVec displays
EMPTY_VEC == "the vector is empty"

\* Serialize for NonEmptyVec
NonEmptyVec_serialize(non_empty) == Vec_serialize(non_empty.inner)

NonEmptyVec_deserialize_unchecked(data) == Ok(NonEmptyVec_new_unchecked(Vec_deserialize(data)))

\* Deserialize for NonEmptyVec: map_err(D::Error::custom) keeps the message
NonEmptyVec_deserialize(data) ==
    LET result == NonEmptyVec_new(Vec_deserialize(data))
    IN  IF result.tag = "Ok" THEN result ELSE Err([custom |-> EMPTY_VEC])

\* Deserialize for NonEmptyBoxedSlice
NonEmptyBoxedSlice_deserialize(data) ==
    LET result == NonEmptyVec_deserialize(data)
    IN  IF result.tag = "Ok"
        THEN Ok(NonEmptyVec_into_non_empty_boxed_slice(result.val))
        ELSE result

\* Deserialize for CowSlice: a deserialized Cow is owned
CowSlice_deserialize(data) ==
    LET result == CowSlice_new(Cow_Owned(Vec_deserialize(data)))
    IN  IF result.tag = "Ok" THEN result ELSE Err([custom |-> result.err.empty])

\* derive(PartialEq) on NonEmptyVec: Vec equality, which is that of the items
NonEmptyVec_eq(self, other) == self.inner.items = other.inner.items

\* ------------------------------------------------------------------------
\* State.
\*   vec      the items of a NonEmptyVec being mutated
\*   pre      the items of that vector before the last operation
\*   call     the last operation and its arguments
\*   ret      what the last operation returned
\*   input    the Vec<T> a constructor or a slice method is applied to
\*   plain    a &mut [u8] writer: the bytes of its buffer and where the
\*            slice it still holds starts
\*   wrapped  a &mut NonEmptyBytes writer over a buffer of the same bytes
\*   cow      a CowSlice (slice) and the number of times its data has been
\*            cloned since it was constructed (clones)

VARIABLES vec, pre, call, ret, input, plain, wrapped, cow

vars == <<vec, pre, call, ret, input, plain, wrapped, cow>>

NoVec == [items |-> <<>>, cap |-> 0]

NoWriter == [buf |-> <<>>, pos |-> 0]

NoCow == [slice |-> None, clones |-> 0]

\* ------------------------------------------------------------------------
\* The NonEmptyVec state machine: a vector is constructed, then mutated by
\* any sequence of operations.

Constructed(non_empty, name) ==
    /\ vec = NonEmptyVec_as_slice(non_empty)
    /\ pre = vec
    /\ call = [op |-> name]
    /\ ret = Unit
    /\ input = NoVec
    /\ plain = NoWriter
    /\ wrapped = NoWriter
    /\ cow = NoCow

Init ==
    \/ \E vector \in Vecs(MaxLen) :
          /\ NonEmptyVec_new(vector).tag = "Ok"
          /\ Constructed(NonEmptyVec_new(vector).val, "new")
    \/ \E value \in Elem : Constructed(NonEmptyVec_single(value), "single")
    \/ \E value \in Elem, count \in 1 .. MaxLen :
          Constructed(NonEmptyVec_repeat(value, count), "repeat")
    \/ \E value \in Elem, capacity \in Sizes :
          Constructed(NonEmptyVec_with_capacity_and_value(capacity, value),
                      "with_capacity_and_value")

\* One operation on the vector: outcome is what it leaves and returns.
Apply(outcome, c) ==
    /\ Len(outcome.vec) <= MaxLen
    /\ vec' = outcome.vec
    /\ pre' = vec
    /\ call' = c
    /\ ret' = outcome.ret
    /\ UNCHANGED <<input, plain, wrapped, cow>>

Push ==
    \E value \in Elem :
        Apply(NonEmptyVec_push(vec, value), [op |-> "push", value |-> value])

Insert ==
    \E index \in Indices, value \in Elem :
        Apply(NonEmptyVec_insert(vec, index, value),
              [op |-> "insert", index |-> index, value |-> value])

Extend ==
    \E iterable \in Seqs(MaxLen - 1) :
        Apply(NonEmptyVec_extend(vec, iterable), [op |-> "extend", iterable |-> iterable])

AppendVec ==
    \E other \in Seqs(MaxLen - 1) :
        LET outcome == NonEmptyVec_append(vec, other)
        IN  Apply(outcome, [op |-> "append", other |-> other, emptied |-> outcome.other])

Pop == Apply(NonEmptyVec_pop(vec), [op |-> "pop"])

PopIf ==
    \E predicate \in Predicates :
        Apply(NonEmptyVec_pop_if(vec, predicate), [op |-> "pop_if", predicate |-> predicate])

Remove ==
    \E index \in Indices :
        Apply(NonEmptyVec_remove(vec, index), [op |-> "remove", index |-> index])

SwapRemove ==
    \E index \in Indices :
        Apply(NonEmptyVec_swap_remove(vec, index), [op |-> "swap_remove", index |-> index])

Truncate ==
    \E len \in Sizes :
        Apply(NonEmptyVec_truncate(vec, len), [op |-> "truncate", len |-> len])

SplitOff ==
    \E at \in Sizes :
        Apply(NonEmptyVec_split_off(vec, at), [op |-> "split_off", at |-> at])

Resize ==
    \E new \in Sizes, value \in Elem :
        Apply(NonEmptyVec_resize(vec, new, value),
              [op |-> "resize", new |-> new, value |-> value])

Dedup == Apply(NonEmptyVec_dedup(vec), [op |-> "dedup"])

\* peek_mut(), then one use of the handle: a read, a write or pop()
PeekMut ==
    \/ \E item \in PeekMut_deref(vec) :
          Apply(Outcome(vec, Returned(item)), [op |-> "peek_mut", use |-> "read"])
    \/ \E value \in Elem :
          Apply(PeekMut_deref_mut(vec, value),
                [op |-> "peek_mut", use |-> "write", value |-> value])
    \/ Apply(PeekMut_pop(vec), [op |-> "peek_mut", use |-> "pop"])

Next ==
    \/ Push
    \/ Insert
    \/ Extend
    \/ AppendVec
    \/ Pop
    \/ PopIf
    \/ Remove
    \/ SwapRemove
    \/ Truncate
    \/ SplitOff
    \/ Resize
    \/ Dedup
    \/ PeekMut

Spec == Init /\ [][Next]_vars

\* ------------------------------------------------------------------------
\* Properties of the NonEmptyVec state machine (Spec).

\* C1: from any vector built by new on a non-empty Vec, single, repeat or
\* with_capacity_and_value, after every operation of any sequence of push,
\* insert, extend, append, pop, pop_if, remove, swap_remove, truncate,
\* split_off, resize and dedup calls, len() is at least 1.
C1_LenAtLeastOne == NonEmptyVec_len(vec) >= 1

\* A pop on a vector of two items has left one.
C1_Witness == call.op = "pop" /\ Len(pre) = 2 /\ Len(vec) = 1

\* C2: on a vector of length 1, pop(), remove(0) and swap_remove(0) return
\* None and leave the vector as it was.
C2_SoleItemKept ==
    (/\ Len(pre) = 1
     /\ \/ call.op = "pop"
        \/ call.op \in {"remove", "swap_remove"} /\ call.index = 0)
    => (ret = None /\ vec = pre /\ Len(vec) = 1)

\* swap_remove(0) was called on a vector of one item.
C2_Witness ==
    call.op = "swap_remove" /\ call.index = 0 /\ Len(pre) = 1 /\ ret = None

\* C3: on a vector of length n >= 2, pop() returns the last item and removes
\* it; remove(i), i < n, returns item i and shifts the later items left in
\* order; swap_remove(i), i < n, returns item i and the former last item
\* takes position i (when that position is still in the vector); the length
\* becomes n - 1.
C3_Removal ==
    LET n == Len(pre)
    IN  /\ (call.op = "pop" /\ n >= 2) =>
              /\ ret = Some(pre[n])
              /\ Len(vec) = n - 1
              /\ \A j \in 1 .. (n - 1) : vec[j] = pre[j]
        /\ (call.op = "remove" /\ n >= 2 /\ call.index < n) =>
              /\ ret = Some(pre[call.index + 1])
              /\ Len(vec) = n - 1
              /\ \A j \in 1 .. (n - 1) :
                    vec[j] = IF j <= call.index THEN pre[j] ELSE pre[j + 1]
        /\ (call.op = "swap_remove" /\ n >= 2 /\ call.index < n) =>
              /\ ret = Some(pre[call.index + 1])
              /\ Len(vec) = n - 1
              /\ \A j \in 1 .. (n - 1) :
                    vec[j] = IF j = call.index + 1 THEN pre[n] ELSE pre[j]

\* swap_remove(0) on three items, the first and the last different, has put
\* the last item first.
C3_Witness ==
    /\ call.op = "swap_remove"
    /\ call.index = 0
    /\ Len(pre) = 3
    /\ pre[1] # pre[3]
    /\ ret = Some(pre[1])
    /\ vec[1] = pre[3]

\* C20: pop_if(predicate) removes the last item and returns it exactly when
\* the length is greater than 1 and the predicate returns true for the last
\* item; otherwise it returns None and the length is what it was.
C20_PopIf ==
    call.op = "pop_if" =>
        LET n == Len(pre)
            last == pre[n]
        IN  IF n > 1 /\ PredicateResult(call.predicate, last)
            THEN /\ ret = Some(PredicateEffect(call.predicate, last))
                 /\ Len(vec) = n - 1
                 /\ \A j \in 1 .. (n - 1) : vec[j] = pre[j]
            ELSE /\ ret = None
                 /\ Len(vec) = n

\* pop_if with a predicate that accepts the only item of a vector: the item
\* stays and None is returned.
C20_Witness ==
    /\ call.op = "pop_if"
    /\ Len(pre) = 1
    /\ PredicateResult(call.predicate, pre[1])
    /\ ret = None
    /\ Len(vec) = 1

\* C21: next_empty() is true exactly when the length is 1, next_non_empty()
\* is its negation, and pop, pop_if, remove and swap_remove remove an item
\* only from a vector for which next_non_empty() is true.
C21_NextEmpty ==
    /\ NonEmptyVec_next_empty(vec) <=> (Len(vec) = 1)
    /\ NonEmptyVec_next_non_empty(vec) <=> ~NonEmptyVec_next_empty(vec)
    /\ (call.op \in {"pop", "pop_if", "remove", "swap_remove"} /\ Len(vec) < Len(pre)) =>
          (NonEmptyVec_next_non_empty(pre) /\ Len(pre) > 1)
    /\ (call.op \in {"pop", "pop_if", "remove", "swap_remove"} /\ Len(pre) = 1) =>
          Len(vec) = 1

\* remove(1) has taken an item from a vector of two, and next_empty() is
\* now true.
C21_Witness ==
    /\ call.op = "remove"
    /\ call.index = 1
    /\ Len(pre) = 2
    /\ Len(vec) = 1
    /\ NonEmptyVec_next_empty(vec)

\* C22: the handle of peek_mut() reads the last item; a write through it
\* changes the last item and nothing else, the length included; its pop()
\* returns None and leaves a vector of length 1 as it was, and otherwise
\* removes the last item and returns it.
C22_PeekMut ==
    call.op = "peek_mut" =>
        LET n == Len(pre)
        IN  /\ call.use = "read" => (ret = Returned(pre[n]) /\ vec = pre)
            /\ call.use = "write" =>
                  /\ Len(vec) = n
                  /\ vec[n] = call.value
                  /\ \A j \in 1 .. (n - 1) : vec[j] = pre[j]
            /\ call.use = "pop" =>
                  IF n = 1
                  THEN ret = None /\ vec = pre
                  ELSE /\ ret = Some(pre[n])
                       /\ Len(vec) = n - 1
                       /\ \A j \in 1 .. (n - 1) : vec[j] = pre[j]

\* A write through the handle has changed the last of three items, which
\* was like the first.
C22_Witness ==
    /\ call.op = "peek_mut"
    /\ call.use = "write"
    /\ Len(pre) = 3
    /\ pre[1] = pre[3]
    /\ vec[3] # pre[3]
    /\ vec[1] = pre[1]

\* C23: truncate(L), L positive, leaves the first min(n, L) items of the n
\* the vector had, in order; with L >= n the vector is as it was.
C23_Truncate ==
    call.op = "truncate" =>
        LET n == Len(pre)
            kept == Min(n, call.len)
        IN  /\ Len(vec) = kept
            /\ \A j \in 1 .. kept : vec[j] = pre[j]
            /\ call.len >= n => vec = pre
            /\ ret = Unit

\* truncate(1) on three items has left the first.
C23_Witness ==
    call.op = "truncate" /\ call.len = 1 /\ Len(pre) = 3 /\ vec = <<pre[1]>>

\* C24: split_off(at), 1 <= at <= n, leaves the first at items and returns
\* the other n - at as a Vec, empty exactly when at = n; what is left
\* followed by what is returned is the vector as it was.
C24_SplitOff ==
    (call.op = "split_off" /\ call.at <= Len(pre)) =>
        LET n == Len(pre)
        IN  /\ ret.tag = "Value"
            /\ Len(vec) = call.at
            /\ \A j \in 1 .. call.at : vec[j] = pre[j]
            /\ Len(ret.val) = n - call.at
            /\ (ret.val = <<>>) <=> (call.at = n)
            /\ vec \o ret.val = pre

\* split_off(1) on three items has returned the last two.
C24_Witness ==
    /\ call.op = "split_off"
    /\ call.at = 1
    /\ Len(pre) = 3
    /\ pre[1] # pre[2]
    /\ vec = <<pre[1]>>
    /\ ret = Returned(<<pre[2], pre[3]>>)

\* C25: resize(new, value), new positive, leaves new items: the first new
\* of the old ones when new <= n, otherwise the n old ones followed by
\* new - n copies of value.
C25_Resize ==
    call.op = "resize" =>
        LET n == Len(pre)
        IN  /\ Len(vec) = call.new
            /\ \A j \in 1 .. Min(n, call.new) : vec[j] = pre[j]
            /\ \A j \in (n + 1) .. call.new : vec[j] = call.value
            /\ ret = Unit

\* resize(3, value) on one other item has added value twice.
C25_Witness ==
    /\ call.op = "resize"
    /\ call.new = 3
    /\ Len(pre) = 1
    /\ pre[1] # call.value
    /\ vec = <<pre[1], call.value, call.value>>

\* C26: dedup keeps the first item of every run of consecutive equal items
\* and nothing else: no two adjacent items of the result are equal, its
\* first item is the original first item, the survivors are in their
\* original order, and the length is at least 1.
C26_Dedup ==
    call.op = "dedup" =>
        LET heads == {j \in 1 .. Len(pre) : j = 1 \/ pre[j] # pre[j - 1]}
            nth(k) == CHOOSE j \in heads : Cardinality({h \in heads : h <= j}) = k
        IN  /\ Len(vec) >= 1
            /\ vec[1] = pre[1]
            /\ \A j \in 1 .. (Len(vec) - 1) : vec[j] # vec[j + 1]
            /\ Len(vec) = Cardinality(heads)
            /\ \A k \in 1 .. Len(vec) : vec[k] = pre[nth(k)]

\* dedup of two equal items, another and the first again has kept three:
\* the last is not a consecutive duplicate.
C26_Witness ==
    /\ call.op = "dedup"
    /\ Len(pre) = 4
    /\ pre[1] = pre[2]
    /\ pre[3] # pre[2]
    /\ pre[4] = pre[1]
    /\ vec = <<pre[1], pre[3], pre[4]>>

\* C28: on a vector of length 1 pop_if returns before the predicate is
\* called: whatever the predicate would write to the item, the vector is as
\* it was and None is returned.
C28_GuardBeforePredicate ==
    (call.op = "pop_if" /\ Len(pre) = 1) => (vec = pre /\ ret = None)

\* pop_if on one item, with a predicate that accepts it and would overwrite
\* it with another value: the item is as it was.
C28_Witness ==
    /\ call.op = "pop_if"
    /\ Len(pre) = 1
    /\ PredicateResult(call.predicate, pre[1])
    /\ PredicateEffect(call.predicate, pre[1]) # pre[1]
    /\ vec = pre

\* C29: on a vector of length 1, remove(index) and swap_remove(index)
\* return None, without a panic and without a change, for every index,
\* also one out of bounds; on a vector of length at least 2 an index out of
\* bounds makes them panic.
C29_OutOfBounds ==
    call.op \in {"remove", "swap_remove"} =>
        /\ Len(pre) = 1 => (ret = None /\ vec = pre)
        /\ (Len(pre) >= 2 /\ call.index >= Len(pre)) => ret = Panic
        /\ (Len(pre) >= 2 /\ call.index < Len(pre)) => ret.tag = "Some"

\* swap_remove(3) on one item returned None.
C29_Witness ==
    /\ call.op = "swap_remove"
    /\ call.index = 3
    /\ Len(pre) = 1
    /\ ret = None
    /\ vec = pre

\* ------------------------------------------------------------------------
\* The constructors, the element accessors and the iterators are functions of
\* their arguments: a Vec<T> is given (input) and one of them is applied to
\* it, to its boxed slice or to the slice borrowed from it.

PureInit ==
    /\ input \in Vecs(MaxSlice)
    /\ call = [op |-> "input"]
    /\ ret = Unit
    /\ vec = <<>>
    /\ pre = <<>>
    /\ plain = NoWriter
    /\ wrapped = NoWriter
    /\ cow = NoCow

Return(c, r) ==
    /\ call.op = "input"
    /\ call' = c
    /\ ret' = r
    /\ UNCHANGED <<vec, pre, input, plain, wrapped, cow>>

\* The NonEmptySlice borrowed from the input, when it has items
Borrowed == NonEmptySlice_from_slice(input.items)

\* NonEmptyVec::new(input), then into_vec() of the value or get() of the error
CallNew ==
    LET result == NonEmptyVec_new(input)
    IN  Return([op |-> "NonEmptyVec::new", vector |-> input],
               IF result.tag = "Ok"
               THEN Ok(NonEmptyVec_into_vec(result.val))
               ELSE Err(EmptyVec_get(result.err)))

\* NonEmptySlice::from_boxed_slice, then into_boxed_slice() or get()
CallFromBoxedSlice ==
    LET boxed == Vec_into_boxed_slice(input)
        result == NonEmptySlice_from_boxed_slice(boxed)
    IN  Return([op |-> "NonEmptySlice::from_boxed_slice", boxed |-> boxed],
               IF result.tag = "Ok"
               THEN Ok(NonEmptySlice_into_boxed_slice(result.val))
               ELSE Err(EmptyBoxedSlice_get(result.err)))

\* The errors of NonEmptyVec::new and NonEmptySlice::from_boxed_slice on a
\* rejected input, each converted into the other kind both ways
CallEmpty ==
    LET vector == NonEmptyVec_new(input)
        boxed == NonEmptySlice_from_boxed_slice(Vec_into_boxed_slice(input))
    IN  /\ vector.tag = "Err"
        /\ boxed.tag = "Err"
        /\ Return([op |-> "EmptyVec", vec |-> vector.err, boxed |-> boxed.err],
                  [into_empty_boxed_slice |-> EmptyVec_into_empty_boxed_slice(vector.err),
                   from_empty_vec |-> EmptyBoxedSlice_from_empty_vec(vector.err),
                   into_empty_vec |-> EmptyBoxedSlice_into_empty_vec(boxed.err),
                   from_empty_boxed_slice |-> EmptyVec_from_empty_boxed_slice(boxed.err)])

\* NonEmptySlice::try_from_slice and NonEmptySlice::from_slice on one slice
CallFromSlice ==
    LET slice == input.items
    IN  Return([op |-> "NonEmptySlice::from_slice", slice |-> slice],
               [try |-> NonEmptySlice_try_from_slice(slice),
                option |-> NonEmptySlice_from_slice(slice)])

CallFirst ==
    /\ Borrowed.tag = "Some"
    /\ \E item \in NonEmptySlice_first(Borrowed.val) :
          Return([op |-> "first", slice |-> Borrowed.val], item)

CallLast ==
    /\ Borrowed.tag = "Some"
    /\ \E item \in NonEmptySlice_last(Borrowed.val) :
          Return([op |-> "last", slice |-> Borrowed.val], item)

CallSplitFirst ==
    /\ Borrowed.tag = "Some"
    /\ \E pair \in NonEmptySlice_split_first(Borrowed.val) :
          Return([op |-> "split_first", slice |-> Borrowed.val], pair)

CallSplitLast ==
    /\ Borrowed.tag = "Some"
    /\ \E pair \in NonEmptySlice_split_last(Borrowed.val) :
          Return([op |-> "split_last", slice |-> Borrowed.val], pair)

\* split_at and split_at_checked on the borrowed slice, at one non-zero index
CallSplitAt ==
    /\ Borrowed.tag = "Some"
    /\ \E index \in ChunkSizes :
          Return([op |-> "split_at", slice |-> Borrowed.val, index |-> index],
                 [plain |-> NonEmptySlice_split_at(Borrowed.val, index),
                  checked |-> NonEmptySlice_split_at_checked(Borrowed.val, index)])

\* An iterator over the borrowed slice, run to its end: ret is what it yields
Collect(name, size, yielded) ==
    Return([op |-> name, slice |-> Borrowed.val, size |-> size], yielded)

CallChunks ==
    /\ Borrowed.tag = "Some"
    /\ \E size \in ChunkSizes : Collect("chunks", size, Chunks_into_iter(Borrowed.val, size))

CallChunksExact ==
    /\ Borrowed.tag = "Some"
    /\ \E size \in ChunkSizes :
          Collect("chunks_exact", size, ChunksExact_into_iter(Borrowed.val, size))

CallRChunksExact ==
    /\ Borrowed.tag = "Some"
    /\ \E size \in ChunkSizes :
          Collect("rchunks_exact", size, RChunksExact_into_iter(Borrowed.val, size))

CallWindows ==
    /\ Borrowed.tag = "Some"
    /\ \E size \in ChunkSizes : Collect("windows", size, Windows_into_iter(Borrowed.val, size))

CallRChunks ==
    /\ Borrowed.tag = "Some"
    /\ \E size \in ChunkSizes : Collect("rchunks", size, RChunks_into_iter(Borrowed.val, size))

\* chunk_by over the borrowed slice, run to its end
CallChunkBy ==
    /\ Borrowed.tag = "Some"
    /\ \E predicate \in PairPredicates :
          Return([op |-> "chunk_by", slice |-> Borrowed.val, predicate |-> predicate],
                 ChunkBy_into_iter(Borrowed.val, predicate))

\* A NonEmptyBoxedSlice made of the input, into_non_empty_vec() of it, then
\* into_non_empty_boxed_slice() of that
CallIntoNonEmptyVec ==
    LET result == NonEmptySlice_from_boxed_slice(Vec_into_boxed_slice(input))
    IN  /\ result.tag = "Ok"
        /\ LET non_empty_vec == NonEmptySlice_into_non_empty_vec(result.val)
           IN  Return([op |-> "into_non_empty_vec", boxed |-> result.val],
                      [vector |-> non_empty_vec,
                       len |-> NonEmptyVec_len(NonEmptyVec_as_slice(non_empty_vec)),
                       capacity |-> NonEmptyVec_capacity(non_empty_vec),
                       back |-> NonEmptyVec_into_non_empty_boxed_slice(non_empty_vec)])

\* A NonEmptyVec made of the input, into_non_empty_boxed_slice() of it, then
\* into_non_empty_vec() of that
CallIntoNonEmptyBoxedSlice ==
    LET result == NonEmptyVec_new(input)
    IN  /\ result.tag = "Ok"
        /\ LET boxed == NonEmptyVec_into_non_empty_boxed_slice(result.val)
               back == NonEmptySlice_into_non_empty_vec(boxed)
           IN  Return([op |-> "into_non_empty_boxed_slice", vector |-> result.val],
                      [boxed |-> boxed,
                       back |-> back,
                       len |-> NonEmptyVec_len(NonEmptyVec_as_slice(back)),
                       capacity |-> NonEmptyVec_capacity(back)])

\* Every checked constructor of CowSlice on the input, borrowed and owned;
\* from_slice and from_owned_slice when the input makes a Slice and an
\* OwnedSlice
CallCowSlice ==
    Return([op |-> "CowSlice::new", value |-> input],
           [new |-> <<CowSlice_new(Cow_Borrowed(input.items)), CowSlice_new(Cow_Owned(input))>>,
            new_ok |-> <<CowSlice_new_ok(Cow_Borrowed(input.items)),
                         CowSlice_new_ok(Cow_Owned(input))>>,
            borrowed |-> CowSlice_borrowed(input.items),
            borrowed_ok |-> CowSlice_borrowed_ok(input.items),
            owned |-> CowSlice_owned(input),
            owned_ok |-> CowSlice_owned_ok(input),
            from_slice |-> IF Borrowed.tag = "Some"
                           THEN Some(CowSlice_from_slice(Borrowed.val))
                           ELSE None,
            from_owned_slice |-> IF OwnedSlice_new(input).tag = "Ok"
                                 THEN Some(CowSlice_from_owned_slice(OwnedSlice_new(input).val))
                                 ELSE None])

\* The input serialized, as a NonEmptyVec when it has items and as a plain
\* Vec when it has none, then deserialized as each non-empty type
CallDeserialize ==
    LET data == IF NonEmptyVec_new(input).tag = "Ok"
                THEN NonEmptyVec_serialize(NonEmptyVec_new(input).val)
                ELSE Vec_serialize(input)
    IN  Return([op |-> "deserialize", vector |-> input, data |-> data],
               [vec |-> NonEmptyVec_deserialize(data),
                boxed |-> NonEmptyBoxedSlice_deserialize(data),
                cow |-> CowSlice_deserialize(data)])

PureNext ==
    \/ CallNew
    \/ CallFromBoxedSlice
    \/ CallEmpty
    \/ CallFromSlice
    \/ CallFirst
    \/ CallLast
    \/ CallSplitFirst
    \/ CallSplitLast
    \/ CallSplitAt
    \/ CallChunks
    \/ CallChunksExact
    \/ CallRChunksExact
    \/ CallWindows
    \/ CallRChunks
    \/ CallChunkBy
    \/ CallIntoNonEmptyVec
    \/ CallIntoNonEmptyBoxedSlice
    \/ CallCowSlice
    \/ CallDeserialize

PureSpec == PureInit /\ [][PureNext]_vars

\* ------------------------------------------------------------------------
\* Properties of the constructors, accessors and iterators (PureSpec).

\* C4: for every non-empty Vec s, NonEmptyVec::new(s) succeeds and into_vec()
\* of the result has the items of s, in order; for every non-empty boxed
\* slice b, from_boxed_slice(b) succeeds and into_boxed_slice() returns b.
C4_RoundTrip ==
    /\ (call.op = "NonEmptyVec::new" /\ Len(call.vector.items) >= 1) =>
          /\ ret.tag = "Ok"
          /\ Len(ret.val.items) = Len(call.vector.items)
          /\ \A j \in 1 .. Len(call.vector.items) : ret.val.items[j] = call.vector.items[j]
    /\ (call.op = "NonEmptySlice::from_boxed_slice" /\ Len(call.boxed) >= 1) =>
          /\ ret.tag = "Ok"
          /\ ret.val = call.boxed

\* A vector of three items went through new and into_vec.
C4_Witness ==
    call.op = "NonEmptyVec::new" /\ Len(call.vector.items) = 3 /\ ret.tag = "Ok"

\* C5: NonEmptyVec::new fails exactly when the Vec is empty and
\* from_boxed_slice exactly when the boxed slice is empty; get() of the
\* error is the container that was rejected.
C5_EmptyRejected ==
    /\ call.op = "NonEmptyVec::new" =>
          /\ (ret.tag = "Err") <=> (Len(call.vector.items) = 0)
          /\ ret.tag = "Err" => ret.err = call.vector
    /\ call.op = "NonEmptySlice::from_boxed_slice" =>
          /\ (ret.tag = "Err") <=> (Len(call.boxed) = 0)
          /\ ret.tag = "Err" => ret.err = call.boxed

\* An empty Vec with spare capacity was rejected and handed back.
C5_Witness ==
    /\ call.op = "NonEmptyVec::new"
    /\ ret.tag = "Err"
    /\ Len(ret.err.items) = 0
    /\ ret.err.cap > 0

\* C6: try_from_slice returns Err(EmptySlice) exactly when the slice has
\* length 0 and from_slice returns None in exactly those cases; on success
\* as_slice() of the result is the slice given and len() is at least 1.
C6_FromSlice ==
    call.op = "NonEmptySlice::from_slice" =>
        /\ (ret.try.tag = "Err") <=> (Len(call.slice) = 0)
        /\ ret.try.tag = "Err" => ret.try.err = EmptySlice
        /\ (ret.option = None) <=> (Len(call.slice) = 0)
        /\ ret.try.tag = "Ok" =>
              /\ NonEmptySlice_as_slice(ret.try.val) = call.slice
              /\ NonEmptySlice_len(ret.try.val) >= 1
        /\ ret.option.tag = "Some" =>
              /\ NonEmptySlice_as_slice(ret.option.val) = call.slice
              /\ NonEmptySlice_len(ret.option.val) >= 1

\* A slice of one item was accepted by both constructors.
C6_Witness ==
    /\ call.op = "NonEmptySlice::from_slice"
    /\ Len(call.slice) = 1
    /\ ret.try.tag = "Ok"
    /\ ret.option.tag = "Some"

\* C7: on a NonEmptySlice of length n, first() is item 0 and last() is item
\* n - 1; split_first() is (item 0, items 1..n) and split_last() is
\* (item n - 1, items 0..n - 1).
C7_Access ==
    call.op \in {"first", "last", "split_first", "split_last"} =>
        LET s == call.slice.inner
            n == Len(s)
        IN  /\ call.op = "first" => ret = s[1]
            /\ call.op = "last" => ret = s[n]
            /\ call.op = "split_first" =>
                  /\ ret.item = s[1]
                  /\ Len(ret.rest) = n - 1
                  /\ \A j \in 1 .. (n - 1) : ret.rest[j] = s[j + 1]
            /\ call.op = "split_last" =>
                  /\ ret.item = s[n]
                  /\ Len(ret.rest) = n - 1
                  /\ \A j \in 1 .. (n - 1) : ret.rest[j] = s[j]

\* last() was taken of three items whose first and last differ.
C7_Witness ==
    /\ call.op = "last"
    /\ Len(call.slice.inner) = 3
    /\ call.slice.inner[1] # call.slice.inner[3]
    /\ ret = call.slice.inner[3]

\* C27: split_at(index) on n items with 1 <= index <= n returns a non-empty
\* left part holding the first index items and a right part holding the
\* other n - index items; split_at_checked(index) returns None exactly when
\* index > n and otherwise the pair split_at returns.
C27_SplitAt ==
    call.op = "split_at" =>
        LET s == call.slice.inner
            n == Len(s)
            index == call.index
        IN  /\ index <= n =>
                  /\ ret.plain # Panic
                  /\ NonEmptySlice_len(ret.plain.left) = index
                  /\ NonEmptySlice_len(ret.plain.left) >= 1
                  /\ \A j \in 1 .. index :
                        NonEmptySlice_as_slice(ret.plain.left)[j] = s[j]
                  /\ Len(ret.plain.right) = n - index
                  /\ \A j \in 1 .. (n - index) : ret.plain.right[j] = s[index + j]
                  /\ ret.checked = Some(ret.plain)
            /\ (ret.checked = None) <=> (index > n)

\* Four items were split at index 4, leaving nothing on the right, by both
\* functions.
C27_Witness ==
    /\ call.op = "split_at"
    /\ Len(call.slice.inner) = 4
    /\ call.index = 4
    /\ ret.checked.tag = "Some"
    /\ ret.checked.val.right = << >>
    /\ NonEmptySlice_len(ret.plain.left) = 4

\* C30: every EmptyVec and every EmptyBoxedSlice holds a container of
\* length 0: the ones the checked constructors return on failure, and the
\* ones from_empty_boxed_slice, into_empty_boxed_slice, from_empty_vec and
\* into_empty_vec make of them.
C30_EmptyHoldsEmpty ==
    /\ (call.op = "NonEmptyVec::new" /\ ret.tag = "Err") => Len(ret.err.items) = 0
    /\ (call.op = "NonEmptySlice::from_boxed_slice" /\ ret.tag = "Err") =>
          Len(ret.err) = 0
    /\ call.op = "EmptyVec" =>
          /\ Len(EmptyVec_get(call.vec).items) = 0
          /\ Len(EmptyBoxedSlice_get(call.boxed)) = 0
          /\ Len(EmptyBoxedSlice_get(ret.into_empty_boxed_slice)) = 0
          /\ Len(EmptyBoxedSlice_get(ret.from_empty_vec)) = 0
          /\ Len(EmptyVec_get(ret.into_empty_vec).items) = 0
          /\ Len(EmptyVec_get(ret.from_empty_boxed_slice).items) = 0

\* An EmptyVec whose vector has spare capacity was converted into an
\* EmptyBoxedSlice.
C30_Witness ==
    /\ call.op = "EmptyVec"
    /\ EmptyVec_get(call.vec).cap > 0
    /\ EmptyBoxedSlice_get(ret.into_empty_boxed_slice) = << >>
    /\ EmptyVec_get(ret.into_empty_vec).cap = 0

\* C8: for every non-empty slice and every positive size, the iterators of
\* chunks_exact, rchunks_exact and windows yield at least one item.
C8_IteratorsYield ==
    call.op \in {"chunks_exact", "rchunks_exact", "windows"} => Len(ret) >= 1

\* C10: chunks(k) on n items yields ceil(n / k) chunks, front to back, each
\* of k items except the last, which has n - k * (count - 1) items, between 1
\* and k; the chunks in yield order make up the input.
C10_Chunks ==
    call.op = "chunks" =>
        LET s == call.slice.inner
            n == Len(s)
            k == call.size
            count == Len(ret)
        IN  /\ count = (n + k - 1) \div k
            /\ \A i \in 1 .. count : NonEmptySlice_len(ret[i]) >= 1
            /\ \A i \in 1 .. (count - 1) : NonEmptySlice_len(ret[i]) = k
            /\ NonEmptySlice_len(ret[count]) = n - k * (count - 1)
            /\ NonEmptySlice_len(ret[count]) \in 1 .. k
            /\ \A j \in 1 .. n :
                  NonEmptySlice_as_slice(ret[((j - 1) \div k) + 1])[((j - 1) % k) + 1] = s[j]

\* Five items in chunks of two: chunks of 2, 2 and 1 items.
C10_Witness ==
    /\ call.op = "chunks"
    /\ call.size = 2
    /\ Len(call.slice.inner) = 5
    /\ Len(ret) = 3
    /\ NonEmptySlice_len(ret[1]) = 2
    /\ NonEmptySlice_len(ret[2]) = 2
    /\ NonEmptySlice_len(ret[3]) = 1

C12_RChunks ==
    call.op = "rchunks" =>
        LET s == call.slice.inner
            n == Len(s)
            k == call.size
            count == Len(ret)
        IN  /\ count >= 1
            /\ \A i \in 1 .. count : NonEmptySlice_len(ret[i]) >= 1
            /\ NonEmptySlice_as_slice(ret[1]) = SubSeq(s, n - Min(k, n) + 1, n)
            /\ \A i \in 1 .. (count - 1) : NonEmptySlice_len(ret[i]) = k
            /\ NonEmptySlice_len(ret[count]) \in 1 .. k
            /\ k * (count - 1) + NonEmptySlice_len(ret[count]) = n
            /\ \A i \in 1 .. count :
                  \A j \in 1 .. NonEmptySlice_len(ret[i]) :
                      NonEmptySlice_as_slice(ret[i])[j]
                          = s[n - k * (i - 1) - NonEmptySlice_len(ret[i]) + j]

\* Five items, the first two different, in chunks of two from the back: the
\* last chunk yielded is the first item alone.
C12_Witness ==
    /\ call.op = "rchunks"
    /\ call.size = 2
    /\ Len(call.slice.inner) = 5
    /\ call.slice.inner[1] # call.slice.inner[2]
    /\ Len(ret) = 3
    /\ NonEmptySlice_as_slice(ret[1]) = SubSeq(call.slice.inner, 4, 5)
    /\ NonEmptySlice_as_slice(ret[3]) = <<call.slice.inner[1]>>

\* C13: chunk_by yields at least one group, every group has an item, the
\* groups in yield order make up the input, the predicate holds for every
\* two adjacent items of a group and fails for the last item of a group and
\* the first item of the next.
C13_ChunkBy ==
    call.op = "chunk_by" =>
        LET s == call.slice.inner
            count == Len(ret)
            group(i) == NonEmptySlice_as_slice(ret[i])
            RECURSIVE joined(_)
            joined(i) == IF i = 0 THEN <<>> ELSE joined(i - 1) \o group(i)
        IN  /\ count >= 1
            /\ \A i \in 1 .. count : Len(group(i)) >= 1
            /\ joined(count) = s
            /\ \A i \in 1 .. count :
                  \A j \in 1 .. (Len(group(i)) - 1) :
                      PairPredicateResult(call.predicate, group(i)[j], group(i)[j + 1])
            /\ \A i \in 1 .. (count - 1) :
                  ~PairPredicateResult(call.predicate,
                                       group(i)[Len(group(i))], group(i + 1)[1])

\* Four items grouped by equality into groups of two, one and one.
C13_Witness ==
    /\ call.op = "chunk_by"
    /\ call.predicate = {0}
    /\ Len(call.slice.inner) = 4
    /\ Len(ret) = 3
    /\ NonEmptySlice_len(ret[1]) = 2
    /\ NonEmptySlice_len(ret[2]) = 1
    /\ NonEmptySlice_len(ret[3]) = 1

\* C14: a NonEmptyBoxedSlice converted by into_non_empty_vec and back by
\* into_non_empty_boxed_slice, and a NonEmptyVec converted by
\* into_non_empty_boxed_slice and back by into_non_empty_vec, have the items
\* they had, in order, whether one or many.
C14_BoxedVecRoundTrip ==
    /\ call.op = "into_non_empty_vec" =>
          /\ NonEmptyVec_as_slice(ret.vector) = NonEmptySlice_as_slice(call.boxed)
          /\ NonEmptySlice_as_slice(ret.back) = NonEmptySlice_as_slice(call.boxed)
    /\ call.op = "into_non_empty_boxed_slice" =>
          /\ NonEmptySlice_as_slice(ret.boxed) = NonEmptyVec_as_slice(call.vector)
          /\ NonEmptyVec_as_slice(ret.back) = NonEmptyVec_as_slice(call.vector)

\* A vector of three items and spare capacity went to a boxed slice and back.
C14_Witness ==
    /\ call.op = "into_non_empty_boxed_slice"
    /\ Len(call.vector.inner.items) = 3
    /\ call.vector.inner.cap > 3
    /\ call.vector.inner.items[1] # call.vector.inner.items[3]
    /\ Len(ret.back.inner.items) = 3

C17_CowSliceNonEmpty ==
    call.op = "CowSlice::new" =>
        LET empty == Len(call.value.items) = 0
            results == {ret.new[1], ret.new[2], ret.borrowed, ret.owned}
            options == {ret.new_ok[1], ret.new_ok[2], ret.borrowed_ok, ret.owned_ok,
                        ret.from_slice, ret.from_owned_slice}
        IN  /\ \A result \in results :
                  /\ (result = Err(Empty)) <=> empty
                  /\ (result.tag = "Ok") <=> ~empty
                  /\ result.tag = "Ok" => Len(CowSlice_get(result.val).view) >= 1
            /\ \A option \in options :
                  /\ (option = None) <=> empty
                  /\ option.tag = "Some" => Len(CowSlice_get(option.val).view) >= 1

\* An empty vector with spare capacity was rejected by owned and owned_ok.
C17_Witness ==
    /\ call.op = "CowSlice::new"
    /\ Len(call.value.items) = 0
    /\ call.value.cap > 0
    /\ ret.owned = Err(Empty)
    /\ ret.owned_ok = None

\* C19: a NonEmptyVec serialized and deserialized is equal to what it was;
\* an empty sequence serialized does not deserialize as NonEmptyVec,
\* NonEmptyBoxedSlice or CowSlice: the result is an error with the message of
\* the emptiness error.
C19_Serde ==
    call.op = "deserialize" =>
        IF Len(call.vector.items) >= 1
        THEN /\ ret.vec.tag = "Ok"
             /\ NonEmptyVec_eq(ret.vec.val, NonEmptyVec_new(call.vector).val)
        ELSE /\ ret.vec = Err([custom |-> EMPTY_VEC])
             /\ ret.boxed = Err([custom |-> EMPTY_VEC])
             /\ ret.cow = Err([custom |-> Empty.empty])

\* A vector of three items and spare capacity came back equal, without the
\* spare capacity.
C19_Witness ==
    /\ call.op = "deserialize"
    /\ Len(call.vector.items) = 3
    /\ call.vector.cap > 3
    /\ ret.vec.tag = "Ok"
    /\ ret.vec.val.inner.items = call.vector.items
    /\ ret.vec.val.inner.cap = 3

\* ------------------------------------------------------------------------
\* io::Write for &mut NonEmptyBytes (io.rs), beside io::Write for &mut [u8].
\* A writer is the bytes of its buffer (buf) and the offset in it where the
\* slice the writer holds starts (pos).

\* io::Write::write for &mut [u8]: copies what fits to the front of the
\* slice, then makes the slice its own rest
Slice_write(writer, buffer) ==
    LET amt == Min(Len(buffer), Len(writer.buf) - writer.pos)
    IN  [buf |-> [i \in 1 .. Len(writer.buf) |->
                    IF i > writer.pos /\ i <= writer.pos + amt
                    THEN buffer[i - writer.pos]
                    ELSE writer.buf[i]],
         pos |-> writer.pos + amt,
         ret |-> Ok(amt)]

\* io::Write::write for &mut NonEmptyBytes: as_mut_slice() makes a new
\* &mut [u8] over the whole non-empty slice; the write advances that
\* temporary, and self still holds the whole slice
NonEmptyBytes_write(writer, buffer) ==
    LET temporary == Slice_write(writer, buffer)
    IN  [buf |-> temporary.buf, pos |-> writer.pos, ret |-> temporary.ret]

IoInit ==
    /\ \E bytes \in NonEmptySeqs(MaxLen) :
          /\ plain = [buf |-> bytes, pos |-> 0]
          /\ wrapped = [buf |-> bytes, pos |-> 0]
    /\ call = [op |-> "writers"]
    /\ ret = Unit
    /\ vec = <<>>
    /\ pre = <<>>
    /\ input = NoVec
    /\ cow = NoCow

\* The same write call on both writers
Write ==
    \E buffer \in Seqs(MaxWrite) :
        LET p == Slice_write(plain, buffer)
            w == NonEmptyBytes_write(wrapped, buffer)
        IN  /\ plain' = [buf |-> p.buf, pos |-> p.pos]
            /\ wrapped' = [buf |-> w.buf, pos |-> w.pos]
            /\ call' = [op |-> "write", buffer |-> buffer]
            /\ ret' = [plain |-> p.ret, wrapped |-> w.ret]
            /\ UNCHANGED <<vec, pre, input, cow>>

IoNext == Write

IoSpec == IoInit /\ [][IoNext]_vars

\* C9: for any sequence of write calls, the byte counts returned through
\* the &mut NonEmptyBytes writer and the bytes left in its buffer are those
\* of the same calls through the &mut [u8] writer over the same buffer.
C9_SameAsPlainWriter ==
    call.op = "write" =>
        /\ ret.wrapped = ret.plain
        /\ wrapped.buf = plain.buf

\* ------------------------------------------------------------------------
\* A CowSlice over borrowed or owned data: it is constructed from the input,
\* then read, written through mutable access and compared, in any order.

CowInit ==
    /\ input \in Vecs(MaxCow)
    /\ \/ /\ CowSlice_borrowed(input.items).tag = "Ok"
          /\ cow = [slice |-> CowSlice_borrowed(input.items).val, clones |-> 0]
          /\ call = [op |-> "borrowed"]
       \/ /\ CowSlice_owned(input).tag = "Ok"
          /\ cow = [slice |-> CowSlice_owned(input).val, clones |-> 0]
          /\ call = [op |-> "owned"]
    /\ ret = Unit
    /\ vec = <<>>
    /\ pre = <<>>
    /\ plain = NoWriter
    /\ wrapped = NoWriter

\* get(): call records the CowSlice and the clones made before the call
CowGet ==
    LET result == CowSlice_get(cow.slice)
    IN  /\ cow' = [cow EXCEPT !.clones = @ + result.cloned]
        /\ call' = [op |-> "get", self |-> cow.slice, clones |-> cow.clones]
        /\ ret' = result.view
        /\ UNCHANGED <<vec, pre, input, plain, wrapped>>

\* Mutable access, then a write of value at index through the reference
CowToMut ==
    \E index \in 0 .. (MaxCow - 1), value \in Elem :
        LET promoted == CowSlice_to_mut(cow.slice)
            owned == promoted.self.value.vec
        IN  /\ index < Len(owned.items)
            /\ cow' = [slice |-> CowSlice_new_unchecked(
                                     Cow_Owned([owned EXCEPT !.items[index + 1] = value])),
                       clones |-> cow.clones + promoted.cloned]
            /\ call' = [op |-> "to_mut", self |-> cow.slice, clones |-> cow.clones,
                        index |-> index, value |-> value]
            /\ ret' = Unit
            /\ UNCHANGED <<vec, pre, input, plain, wrapped>>

\* The CowSlice compared with one made of the input, borrowed or owned
CowCompare ==
    \E other \in {CowSlice_borrowed(input.items).val, CowSlice_owned(input).val} :
        /\ call' = [op |-> "compare", self |-> cow.slice, other |-> other]
        /\ ret' = CowSlice_derived(cow.slice, other)
        /\ UNCHANGED <<vec, pre, input, plain, wrapped, cow>>

CowNext ==
    \/ CowGet
    \/ CowToMut
    \/ CowCompare

CowSpec == CowInit /\ [][CowNext]_vars

C18_BranchIndependent ==
    (call.op = "compare" /\ Cow_as_ref(call.self.value) = Cow_as_ref(call.other.value)) =>
        /\ ret.eq
        /\ ret.cmp = "Equal"
        /\ ret.hash[1] = ret.hash[2]

\* An owned CowSlice was compared with a borrowed one of the same two items.
C18_Witness ==
    /\ call.op = "compare"
    /\ call.self.value.tag = "Owned"
    /\ call.other.value.tag = "Borrowed"
    /\ Len(Cow_as_ref(call.self.value)) = 2
    /\ Cow_as_ref(call.self.value) = Cow_as_ref(call.other.value)
    /\ ret.eq

=============================================================================
